---------------------------- MODULE Spec2Model ----------------------------
(***************************************************************************)
(* A model of lazy_db.LazyDb (src/lazy_db/lazy_db.py): a single-file       *)
(* key-value store.  The file is a sequence of bytes (0..255), file        *)
(* offsets are 0-based as in the code, the index self.headers is a         *)
(* function from keys to offsets.  Every method of the class is one        *)
(* action; an exception raised by a method is recorded in result.err.      *)
(***************************************************************************)
EXTENDS Integers, Sequences, FiniteSets, TLC

VARIABLES
    file,              \* the bytes of the database file, as seen through self.f
    headers,           \* self.headers: key -> offset of the ContentLength field
    key_int_size,      \* self.key_int_size
    content_int_size,  \* self.content_int_size
    int_list_size,     \* self.int_list_size
    engine,            \* "open": self.f is open; "closed": after close();
                       \* "none": the constructor raised, there is no object
    pos,               \* self.f.tell(): the file cursor (0 once the file is closed)
    result,            \* what the last call returned or raised; moved is a ghost:
                       \* the bytes the last delete shifted back
    written            \* ghost: key -> value of the writes that succeeded and
                       \* were not deleted since

vars == <<file, headers, key_int_size, content_int_size, int_list_size,
          engine, pos, result, written>>

-----------------------------------------------------------------------------
(* Bounds of the model *)

\* writes are offered while the index holds fewer keys than this
MaxEntries == 2
\* a write is offered when the file it leaves is no longer than this
MaxFileLen == 120
\* the payload length of the long raw-bytes value
BigLen == 255

-----------------------------------------------------------------------------
(* Bytes and sequences *)

Min(a, b) == IF a < b THEN a ELSE b
Max(a, b) == IF a > b THEN a ELSE b

RECURSIVE Pow256(_)
Pow256(e) == IF e = 0 THEN 1 ELSE 256 * Pow256(e - 1)

\* f.seek(p); f.read(n): the bytes at offsets p .. p+n-1, fewer at end of file
ReadAt(f, p, n) ==
    IF n <= 0 \/ p >= Len(f) THEN << >> ELSE SubSeq(f, p + 1, Min(p + n, Len(f)))

\* f.seek(p); f.write(data): overwrites, extends, and zero-fills a gap
WriteAt(f, p, data) ==
    [i \in 1..Max(Len(f), p + Len(data)) |->
        IF i > p /\ i <= p + Len(data) THEN data[i - p]
        ELSE IF i <= Len(f) THEN f[i] ELSE 0]

\* io.SEEK_SET, io.SEEK_CUR, io.SEEK_END
SEEK_SET == 0
SEEK_CUR == 1
SEEK_END == 2

\* a seek that takes every offset as relative to the cursor
seek_relative(f, p, offset, whence) == p + offset

\* f.seek(offset, whence) on file f with the cursor at p: the new cursor
seek(f, p, offset, whence) ==
    IF whence = SEEK_SET THEN offset
    ELSE IF whence = SEEK_CUR THEN p + offset
    ELSE Len(f) + offset

\* the index of the first b in bs at or after index i, 0 when there is none
RECURSIVE IndexOf(_, _, _)
IndexOf(bs, b, i) ==
    IF i > Len(bs) THEN 0
    ELSE IF bs[i] = b THEN i ELSE IndexOf(bs, b, i + 1)

-----------------------------------------------------------------------------
(* Python values: keys, content values, documents *)

\* a str key (its UTF-8 bytes), an int key, a key of another type (a float)
StrK(b) == [t |-> "str", b |-> b, n |-> 0]
IntK(n) == [t |-> "int", b |-> << >>, n |-> n]
OtherK == [t |-> "other", b |-> << >>, n |-> 0]

\* a JSON value inside a document: an int or a list of ints
JInt(n) == [t |-> "int", n |-> n, l |-> << >>]
JList(l) == [t |-> "list", n |-> 0, l |-> l]
Pair(k, v) == [k |-> k, v |-> v]

\* content values: str, int, list, dict, bytes, None, and an unsupported type
StrV(b) == [t |-> "str", b |-> b, n |-> 0, l |-> << >>, d |-> << >>]
IntV(n) == [t |-> "int", b |-> << >>, n |-> n, l |-> << >>, d |-> << >>]
ListV(l) == [t |-> "list", b |-> << >>, n |-> 0, l |-> l, d |-> << >>]
DictV(d) == [t |-> "dict", b |-> << >>, n |-> 0, l |-> << >>, d |-> d]
BytesV(b) == [t |-> "bytes", b |-> b, n |-> 0, l |-> << >>, d |-> << >>]
NoneV == [t |-> "none", b |-> << >>, n |-> 0, l |-> << >>, d |-> << >>]
OtherV == [t |-> "other", b |-> << >>, n |-> 0, l |-> << >>, d |-> << >>]

\* the outcome of an encoder or decoder: bytes, a value, or an exception
OkB(b) == [err |-> "", b |-> b]
ErrB(e) == [err |-> e, b |-> << >>]
OkV(v) == [err |-> "", v |-> v]
ErrV(e) == [err |-> e, v |-> NoneV]

-----------------------------------------------------------------------------
(* The value codec *)

\* bytes.decode("utf-8"), for ASCII text: a byte >= 128 is taken to be invalid
bytes_to_str(bytes_in) ==
    IF \E i \in 1..Len(bytes_in) : bytes_in[i] >= 128
    THEN ErrV("UnicodeDecodeError")
    ELSE OkV(StrV(bytes_in))

\* string_in.encode("utf-8"), with the text type tag in front when asked
str_to_bytes(string_in, add_type_header) ==
    IF add_type_header THEN <<1>> \o string_in ELSE string_in

\* int.from_bytes(bytes_in, 'little')
RECURSIVE bytes_to_int(_)
bytes_to_int(bytes_in) ==
    IF Len(bytes_in) = 0 THEN 0
    ELSE bytes_in[1] + 256 * bytes_to_int(Tail(bytes_in))

\* integer_in.to_bytes(length, 'little'), for 0 <= integer_in < 256^length
RECURSIVE LittleEndian(_, _)
LittleEndian(n, length) ==
    IF length = 0 THEN << >>
    ELSE <<n % 256>> \o LittleEndian(n \div 256, length - 1)

\* math.ceil(math.log(n) / math.log(256)) for n >= 1: the least e with 256^e >= n
RECURSIVE CeilLog256(_, _)
CeilLog256(n, e) == IF Pow256(e) >= n THEN e ELSE CeilLog256(n, e + 1)

\* int_to_bytes(integer_in, add_type_header, length); length = -1 stands for None
int_to_bytes(integer_in, add_type_header, length) ==
    IF length = -1 /\ integer_in <= 0 THEN ErrB("ValueError")
    ELSE LET len == IF length = -1 THEN CeilLog256(integer_in, 0) ELSE length
         IN  IF integer_in < 0 \/ integer_in >= Pow256(len)
             THEN ErrB("OverflowError")
             ELSE OkB((IF add_type_header THEN <<2>> ELSE << >>)
                      \o LittleEndian(integer_in, len))

-----------------------------------------------------------------------------
(* The structured-data codec (json.dumps / json.loads), for the documents  *)
(* the model uses: an object whose keys are str or int and whose values    *)
(* are non-negative ints or lists of them, with separators (',', ':').     *)

\* str(n) for n >= 0, as ASCII
RECURSIVE Digits(_)
Digits(n) == IF n < 10 THEN <<48 + n>> ELSE Digits(n \div 10) \o <<48 + (n % 10)>>

IsDigits(bs) ==
    /\ Len(bs) >= 1
    /\ \A i \in 1..Len(bs) : bs[i] >= 48 /\ bs[i] <= 57
    /\ (Len(bs) > 1 => bs[1] # 48)

RECURSIVE ParseNat(_, _)
ParseNat(bs, acc) ==
    IF Len(bs) = 0 THEN acc ELSE ParseNat(Tail(bs), 10 * acc + (bs[1] - 48))

\* the texts of seq, joined by commas
RECURSIVE JoinComma(_)
JoinComma(texts) ==
    IF Len(texts) = 0 THEN << >>
    ELSE IF Len(texts) = 1 THEN texts[1]
    ELSE texts[1] \o <<44>> \o JoinComma(Tail(texts))

\* bs split at the commas that are outside [ ]
RECURSIVE SplitComma(_, _, _, _)
SplitComma(bs, i, depth, cur) ==
    IF i > Len(bs) THEN <<cur>>
    ELSE IF bs[i] = 44 /\ depth = 0
         THEN <<cur>> \o SplitComma(bs, i + 1, 0, << >>)
         ELSE SplitComma(bs, i + 1,
                         IF bs[i] = 91 THEN depth + 1
                         ELSE IF bs[i] = 93 THEN depth - 1 ELSE depth,
                         Append(cur, bs[i]))

\* json.dumps writes an int key as a string
JsonKeyText(k) == <<34>> \o (IF k.t = "int" THEN Digits(k.n) ELSE k.b) \o <<34>>

JsonValueText(v) ==
    IF v.t = "int" THEN Digits(v.n)
    ELSE <<91>> \o JoinComma([i \in 1..Len(v.l) |-> Digits(v.l[i])]) \o <<93>>

\* json.dumps(d, separators=(',', ':'))
JsonDumps(d) ==
    <<123>>
    \o JoinComma([i \in 1..Len(d) |-> JsonKeyText(d[i].k) \o <<58>> \o JsonValueText(d[i].v)])
    \o <<125>>

JsonValueOk(bs) ==
    \/ IsDigits(bs)
    \/ /\ Len(bs) >= 2 /\ bs[1] = 91 /\ bs[Len(bs)] = 93
       /\ LET inner == SubSeq(bs, 2, Len(bs) - 1)
              items == SplitComma(inner, 1, 0, << >>)
          IN  Len(inner) = 0 \/ \A i \in 1..Len(items) : IsDigits(items[i])

JsonParseValue(bs) ==
    IF IsDigits(bs) THEN JInt(ParseNat(bs, 0))
    ELSE LET inner == SubSeq(bs, 2, Len(bs) - 1)
             items == SplitComma(inner, 1, 0, << >>)
         IN  IF Len(inner) = 0 THEN JList(<< >>)
             ELSE JList([i \in 1..Len(items) |-> ParseNat(items[i], 0)])

\* a field "key":value ; the key is read as a str whatever it was written from
JsonFieldOk(bs) ==
    /\ Len(bs) >= 4 /\ bs[1] = 34
    /\ LET q == IndexOf(bs, 34, 2)
       IN  /\ q # 0 /\ q + 1 <= Len(bs) /\ bs[q + 1] = 58
           /\ JsonValueOk(SubSeq(bs, q + 2, Len(bs)))

JsonParseField(bs) ==
    LET q == IndexOf(bs, 34, 2)
    IN  Pair(StrK(SubSeq(bs, 2, q - 1)), JsonParseValue(SubSeq(bs, q + 2, Len(bs))))

\* json.loads(text): the document, or JSONDecodeError
JsonLoads(bs) ==
    IF ~(Len(bs) >= 2 /\ bs[1] = 123 /\ bs[Len(bs)] = 125)
    THEN ErrV("JSONDecodeError")
    ELSE LET inner == SubSeq(bs, 2, Len(bs) - 1)
             fields == SplitComma(inner, 1, 0, << >>)
         IN  IF Len(inner) = 0 THEN OkV(DictV(<< >>))
             ELSE IF \E i \in 1..Len(fields) : ~JsonFieldOk(fields[i])
                  THEN ErrV("JSONDecodeError")
                  ELSE OkV(DictV([i \in 1..Len(fields) |-> JsonParseField(fields[i])]))

bytes_to_dict(bytes_in) ==
    LET str_value == bytes_to_str(bytes_in)
    IN  IF str_value.err # "" THEN str_value ELSE JsonLoads(str_value.v.b)

dict_to_bytes(dict_in, add_type_header) ==
    LET data == str_to_bytes(JsonDumps(dict_in), FALSE)
    IN  IF add_type_header THEN <<3>> \o data ELSE data

\* bytes_to_int_list: len(bytes_in) // int_list_size groups, a ragged tail is dropped
bytes_to_int_list(bytes_in, ils) ==
    LET byte_groups == Len(bytes_in) \div ils
    IN  [i \in 1..byte_groups |->
            bytes_to_int(SubSeq(bytes_in, (i - 1) * ils + 1, i * ils))]

\* int_list_to_bytes: every element at the fixed width; the first element that
\* does not fit raises
RECURSIVE IntListPayload(_, _)
IntListPayload(list_in, ils) ==
    IF Len(list_in) = 0 THEN OkB(<< >>)
    ELSE LET value_bytes == int_to_bytes(list_in[1], FALSE, ils)
             rest == IntListPayload(Tail(list_in), ils)
         IN  IF value_bytes.err # "" THEN value_bytes
             ELSE IF rest.err # "" THEN rest
             ELSE OkB(value_bytes.b \o rest.b)

int_list_to_bytes(list_in, add_type_header, ils) ==
    LET out_array == IntListPayload(list_in, ils)
    IN  IF out_array.err # "" THEN out_array
        ELSE IF add_type_header THEN OkB(<<4>> \o out_array.b) ELSE out_array

\* from_bytes: dispatch on the type tag
from_bytes(bytes_data, ils) ==
    IF Len(bytes_data) = 0 THEN ErrV("IndexError")
    ELSE LET bytes_type == bytes_data[1]
             payload == Tail(bytes_data)
         IN  CASE bytes_type = 1 -> bytes_to_str(payload)
               [] bytes_type = 2 -> OkV(IntV(bytes_to_int(payload)))
               [] bytes_type = 3 -> bytes_to_dict(payload)
               [] bytes_type = 4 -> OkV(ListV(bytes_to_int_list(payload, ils)))
               [] bytes_type = 5 -> OkV(BytesV(payload))
               [] OTHER -> ErrV("TypeError")

\* to_bytes: dispatch on the value's type
to_bytes(value, add_type_header, ils) ==
    CASE value.t = "str" -> OkB(str_to_bytes(value.b, add_type_header))
      [] value.t = "int" -> int_to_bytes(value.n, add_type_header, -1)
      [] value.t = "list" -> int_list_to_bytes(value.l, add_type_header, ils)
      [] value.t = "dict" -> OkB(dict_to_bytes(value.d, add_type_header))
      [] value.t = "bytes" -> OkB(IF add_type_header THEN <<5>> \o value.b ELSE value.b)
      [] OTHER -> ErrB("TypeError")

-----------------------------------------------------------------------------
(* Entry headers *)

\* the key with its type tag, as gen_header writes it
KeyBytes(key, kis) ==
    CASE key.t = "str" -> OkB(str_to_bytes(key.b, TRUE))
      [] key.t = "int" -> int_to_bytes(key.n, TRUE, kis)
      [] OTHER -> ErrB("TypeError")

\* gen_header: marker, key encoding, separator, content length; the content
\* length is encoded first, then the key
gen_header(key, data, kis, cis) ==
    LET content_len_bytes == int_to_bytes(Len(data), FALSE, cis)
        key_bytes == KeyBytes(key, kis)
    IN  IF content_len_bytes.err # "" THEN [err |-> content_len_bytes.err, b |-> << >>, off |-> 0]
        ELSE IF key_bytes.err # "" THEN [err |-> key_bytes.err, b |-> << >>, off |-> 0]
        ELSE [err |-> "",
              b |-> <<0>> \o key_bytes.b \o <<0>> \o content_len_bytes.b,
              off |-> Len(key_bytes.b) + 2]

\* reconstruct_header_size counting the two NUL separators only
reconstruct_header_size_two(key, kis, cis) ==
    LET key_size == IF key.t = "str" THEN Len(str_to_bytes(key.b, FALSE)) ELSE kis
    IN  cis + key_size + 2

\* reconstruct_header_size: content length field, key bytes, and 3
reconstruct_header_size(key, kis, cis) ==
    LET key_size == IF key.t = "str" THEN Len(str_to_bytes(key.b, FALSE)) ELSE kis
    IN  cis + key_size + 3

-----------------------------------------------------------------------------
(* The index as a mapping *)

EmptyMap == [x \in {} |-> 0]
Put(h, k, v) == [x \in (DOMAIN h) \cup {k} |-> IF x = k THEN v ELSE h[x]]
Remove(h, k) == [x \in (DOMAIN h) \ {k} |-> h[x]]

-----------------------------------------------------------------------------
(* The Header Record *)

\* "key_int_size", "content_int_size", "int_list_size" as ASCII
NameKeyIntSize == <<107, 101, 121, 95, 105, 110, 116, 95, 115, 105, 122, 101>>
NameContentIntSize ==
    <<99, 111, 110, 116, 101, 110, 116, 95, 105, 110, 116, 95, 115, 105, 122, 101>>
NameIntListSize == <<105, 110, 116, 95, 108, 105, 115, 116, 95, 115, 105, 122, 101>>

\* write_info: the info document without a type tag, then a NUL
write_info(kis, cis, ils) ==
    LET info == << Pair(StrK(NameKeyIntSize), JInt(kis)),
                   Pair(StrK(NameContentIntSize), JInt(cis)),
                   Pair(StrK(NameIntListSize), JInt(ils)) >>
    IN  dict_to_bytes(info, FALSE) \o <<0>>

\* read_to(to_byte) from offset p: the bytes before the next to_byte (or to the
\* end of the file) and the cursor after it
read_to(f, p, to_byte) ==
    LET z == IndexOf(f, to_byte, p + 1)
    IN  IF z = 0 THEN [b |-> ReadAt(f, p, Len(f)), pos |-> Max(p, Len(f))]
        ELSE [b |-> SubSeq(f, p + 1, z - 1), pos |-> z]

\* info[name]: the value of the last field called name; a dict without it
\* raises KeyError
InfoField(d, name) ==
    LET hits == {i \in 1..Len(d) : d[i].k = StrK(name)}
    IN  IF hits = {} THEN [err |-> "KeyError", n |-> 0]
        ELSE LET v == d[CHOOSE i \in hits : \A j \in hits : j <= i].v
             IN  IF v.t = "int" THEN [err |-> "", n |-> v.n]
                 ELSE [err |-> "TypeError", n |-> 0]

\* get_info and the three lookups of __init__
get_info(f) ==
    LET data_bytes == read_to(f, 0, 0).b
        info_dict == bytes_to_dict(data_bytes)
        k == InfoField(info_dict.v.d, NameKeyIntSize)
        c == InfoField(info_dict.v.d, NameContentIntSize)
        l == InfoField(info_dict.v.d, NameIntListSize)
        bad == [err |-> "", kis |-> 0, cis |-> 0, ils |-> 0]
    IN  IF info_dict.err # "" THEN [bad EXCEPT !.err = info_dict.err]
        ELSE IF k.err # "" THEN [bad EXCEPT !.err = k.err]
        ELSE IF c.err # "" THEN [bad EXCEPT !.err = c.err]
        ELSE IF l.err # "" THEN [bad EXCEPT !.err = l.err]
        ELSE [err |-> "", kis |-> k.n, cis |-> c.n, ils |-> l.n]

-----------------------------------------------------------------------------
(* The index scan *)

\* the loop of get_headers from offset p with the index built so far
\* a scan that does not skip the content: it looks for the next marker right
\* after the content length field
RECURSIVE ScanEntriesEager(_, _, _, _, _)
ScanEntriesEager(f, p, acc, kis, cis) ==
    IF ReadAt(f, p, 1) # <<0>>
    THEN [err |-> "", h |-> acc, pos |-> p + Len(ReadAt(f, p, 1))]
    ELSE LET key_type == ReadAt(f, p + 1, 1)
             strk == read_to(f, p + 2, 0)
             intb == ReadAt(f, p + 2, kis)
             key == IF key_type = <<1>> THEN bytes_to_str(strk.b)
                    ELSE OkV(IntK(bytes_to_int(intb)))
             at == IF key_type = <<1>> THEN strk.pos ELSE p + 2 + Len(intb) + 1
             length_bytes == ReadAt(f, at, cis)
         IN  IF key_type # <<1>> /\ key_type # <<2>>
             THEN [err |-> "IndexingError", h |-> acc, pos |-> p + 1 + Len(key_type)]
             ELSE IF key.err # ""
             THEN [err |-> key.err, h |-> acc, pos |-> at]
             ELSE ScanEntriesEager(f, at + Len(length_bytes),
                              Put(acc, IF key_type = <<1>> THEN StrK(key.v.b) ELSE key.v, at),
                              kis, cis)

RECURSIVE ScanEntries(_, _, _, _, _)
ScanEntries(f, p, acc, kis, cis) ==
    IF ReadAt(f, p, 1) # <<0>>
    THEN [err |-> "", h |-> acc, pos |-> p + Len(ReadAt(f, p, 1))]
    ELSE LET key_type == ReadAt(f, p + 1, 1)
             strk == read_to(f, p + 2, 0)
             intb == ReadAt(f, p + 2, kis)
             key == IF key_type = <<1>> THEN bytes_to_str(strk.b)
                    ELSE OkV(IntK(bytes_to_int(intb)))
             at == IF key_type = <<1>> THEN strk.pos ELSE p + 2 + Len(intb) + 1
             length_bytes == ReadAt(f, at, cis)
             length == bytes_to_int(length_bytes)
         IN  IF key_type # <<1>> /\ key_type # <<2>>
             THEN [err |-> "IndexingError", h |-> acc, pos |-> p + 1 + Len(key_type)]
             ELSE IF key.err # ""
             THEN [err |-> key.err, h |-> acc, pos |-> at]
             ELSE ScanEntries(f, at + Len(length_bytes) + length,
                              Put(acc, IF key_type = <<1>> THEN StrK(key.v.b) ELSE key.v, at),
                              kis, cis)

\* the offsets of the file the scan of ScanEntries reads with f.read: the
\* marker, the key type byte, the key bytes (a string key up to and with its
\* NUL; the separator of an integer key is skipped by a seek) and the content
\* length field; the content is skipped by a seek
RECURSIVE ScanReads(_, _, _, _)
ScanReads(f, p, kis, cis) ==
    IF ReadAt(f, p, 1) # <<0>>
    THEN p..(p + Len(ReadAt(f, p, 1)) - 1)
    ELSE LET key_type == ReadAt(f, p + 1, 1)
             strk == read_to(f, p + 2, 0)
             intb == ReadAt(f, p + 2, kis)
             key == IF key_type = <<1>> THEN bytes_to_str(strk.b)
                    ELSE OkV(IntK(bytes_to_int(intb)))
             at == IF key_type = <<1>> THEN strk.pos ELSE p + 2 + Len(intb) + 1
             keyspan == IF key_type = <<1>> THEN (p + 2)..(strk.pos - 1)
                        ELSE (p + 2)..(p + 2 + Len(intb) - 1)
             length_bytes == ReadAt(f, at, cis)
             length == bytes_to_int(length_bytes)
         IN  IF key_type # <<1>> /\ key_type # <<2>>
             THEN p..(p + Len(key_type))
             ELSE IF key.err # ""
             THEN {p, p + 1} \cup keyspan
             ELSE {p, p + 1} \cup keyspan \cup at..(at + Len(length_bytes) - 1)
                    \cup ScanReads(f, at + Len(length_bytes) + length, kis, cis)

\* the offsets get_headers reads: the Header Record up to its NUL, then the scan
get_headers_reads(f, kis, cis) ==
    0..(read_to(f, 0, 0).pos - 1) \cup ScanReads(f, read_to(f, 0, 0).pos, kis, cis)

\* get_headers: skip the Header Record up to its NUL, then scan the entries
get_headers(f, kis, cis) ==
    ScanEntries(f, read_to(f, 0, 0).pos, EmptyMap, kis, cis)

-----------------------------------------------------------------------------
(* The inputs the model draws from *)

KeyA == StrK(<<97>>)
\* the text key "a\x00": a str with a NUL in it
KeyNul == StrK(<<97, 0>>)
Key7 == IntK(7)
\* too large for every key width of Widths
KeyBig == IntK(70000)

Keys == {KeyA, KeyNul, Key7, KeyBig, OtherK}

ValX == StrV(<<120>>)
\* raw bytes that look like the start of an entry
BytesEntry == BytesV(<<0, 1, 97, 0>>)
\* raw bytes too long for a 1-byte content length
BytesBig == BytesV([i \in 1..BigLen |-> 7])

Values == {ValX, IntV(0), IntV(1), IntV(256), IntV(257), IntV(-1), ListV(<<1, 70000>>),
           BytesEntry, BytesBig, OtherV}

\* (key_int_size, content_int_size, int_list_size) a file is bootstrapped with
Widths == {<<1, 1, 1>>, <<2, 2, 2>>}

-----------------------------------------------------------------------------
(* The engine *)

\* the span of the entry the index locates for key k: from its marker to the end
\* of its content
EntryStart(h, k, kis) == h[k] - (Len(KeyBytes(k, kis).b) + 2)
EntryEnd(f, h, k, cis) == h[k] + cis + bytes_to_int(ReadAt(f, h[k], cis))

\* the index locates a whole entry of key k in the file: marker, key encoding
\* and separator right before the offset, then the length field and the content
EntryAt(f, h, k, kis, cis) ==
    /\ KeyBytes(k, kis).err = ""
    /\ EntryStart(h, k, kis) >= 0
    /\ ReadAt(f, EntryStart(h, k, kis), h[k] - EntryStart(h, k, kis))
           = <<0>> \o KeyBytes(k, kis).b \o <<0>>
    /\ EntryEnd(f, h, k, cis) <= Len(f)

RECURSIVE SumSpans(_, _, _, _, _)
SumSpans(f, h, ks, kis, cis) ==
    IF ks = {} THEN 0
    ELSE LET k == CHOOSE x \in ks : TRUE
         IN  (EntryEnd(f, h, k, cis) - EntryStart(h, k, kis))
             + SumSpans(f, h, ks \ {k}, kis, cis)

\* the file is the Header Record followed by exactly the entries of the index
LaidOut ==
    LET hdr == write_info(key_int_size, content_int_size, int_list_size)
        ks == DOMAIN headers
    IN  /\ ReadAt(file, 0, Len(hdr)) = hdr
        /\ \A k \in ks :
               /\ EntryAt(file, headers, k, key_int_size, content_int_size)
               /\ EntryStart(headers, k, key_int_size) >= Len(hdr)
        /\ \A k1, k2 \in ks :
               k1 # k2 =>
                 \/ EntryEnd(file, headers, k1, content_int_size)
                      <= EntryStart(headers, k2, key_int_size)
                 \/ EntryEnd(file, headers, k2, content_int_size)
                      <= EntryStart(headers, k1, key_int_size)
        /\ Len(hdr) + SumSpans(file, headers, ks, key_int_size, content_int_size)
             = Len(file)

\* the Header Record of the widths in use
HeaderRecord == write_info(key_int_size, content_int_size, int_list_size)

\* the model follows a call that changes the file only on a session whose
\* index matches the file; on any session it follows the calls that leave the
\* file alone
Followed(newfile) == newfile = file \/ LaidOut

Returned(op, v) == [op |-> op, err |-> "", val |-> v, moved |-> 0]
Raised(op, e) == [op |-> op, err |-> e, val |-> NoneV, moved |-> 0]

\* __init__ on a path that is no file: adopt the widths, write the Header
\* Record, start with an empty index
Init ==
    \E w \in Widths :
        /\ key_int_size = w[1]
        /\ content_int_size = w[2]
        /\ int_list_size = w[3]
        /\ file = write_info(w[1], w[2], w[3])
        /\ headers = EmptyMap
        /\ engine = "open"
        /\ pos = Len(write_info(w[1], w[2], w[3]))
        /\ result = Returned("init", NoneV)
        /\ written = EmptyMap

\* write putting the entry at the cursor, without the seek to the end of the file
WriteOutcomeAtCursor(key, value) ==
    LET data == to_bytes(value, TRUE, int_list_size)
        header == gen_header(key, data.b, key_int_size, content_int_size)
        location == pos
        same == [err |-> "", file |-> file, headers |-> headers, pos |-> pos]
    IN  IF data.err # "" THEN [same EXCEPT !.err = data.err]
        ELSE IF key \in DOMAIN headers THEN [same EXCEPT !.err = "KeyError"]
        ELSE IF header.err # "" THEN [same EXCEPT !.err = header.err]
        ELSE IF engine # "open" THEN [same EXCEPT !.err = "ValueError"]
        ELSE [err |-> "",
              file |-> WriteAt(file, location, header.b \o data.b),
              headers |-> Put(headers, key, location + header.off),
              pos |-> location + Len(header.b) + Len(data.b)]

\* write without the test of the key against the index
WriteOutcomeOverwrite(key, value) ==
    LET data == to_bytes(value, TRUE, int_list_size)
        header == gen_header(key, data.b, key_int_size, content_int_size)
        location == Len(file)
        same == [err |-> "", file |-> file, headers |-> headers, pos |-> pos]
    IN  IF data.err # "" THEN [same EXCEPT !.err = data.err]
        ELSE IF header.err # "" THEN [same EXCEPT !.err = header.err]
        ELSE IF engine # "open" THEN [same EXCEPT !.err = "ValueError"]
        ELSE [err |-> "",
              file |-> file \o header.b \o data.b,
              headers |-> Put(headers, key, location + header.off),
              pos |-> location + Len(header.b) + Len(data.b)]

\* write appending the content before the header is generated
WriteOutcomeContentFirst(key, value) ==
    LET data == to_bytes(value, TRUE, int_list_size)
        header == gen_header(key, data.b, key_int_size, content_int_size)
        location == Len(file)
        same == [err |-> "", file |-> file, headers |-> headers, pos |-> pos]
    IN  IF data.err # "" THEN [same EXCEPT !.err = data.err]
        ELSE IF key \in DOMAIN headers THEN [same EXCEPT !.err = "KeyError"]
        ELSE IF engine # "open" THEN [same EXCEPT !.err = "ValueError"]
        ELSE IF header.err # ""
        THEN [err |-> header.err, file |-> file \o data.b, headers |-> headers,
              pos |-> location + Len(data.b)]
        ELSE [err |-> "",
              file |-> file \o header.b \o data.b,
              headers |-> Put(headers, key, location + header.off),
              pos |-> location + Len(header.b) + Len(data.b)]

\* write_raw_bytes(data) on file f with the cursor at p: seek to the end of the
\* file, write there; the file, the location written to and the cursor
write_raw_bytes(f, p, data) ==
    LET location == seek(f, p, 0, SEEK_END)
    IN  [file |-> WriteAt(f, location, data), location |-> location,
         pos |-> location + Len(data)]

\* what write does with the cursor at p once to_bytes has given data (the
\* bytes, or the exception it raised): the exception write raises ("" for
\* none), the file and the index it leaves, and the cursor
WriteEncoded(p, key, data) ==
    LET header == gen_header(key, data.b, key_int_size, content_int_size)
        raw == write_raw_bytes(file, p, header.b \o data.b)
        same == [err |-> "", file |-> file, headers |-> headers, pos |-> p]
    IN  IF data.err # "" THEN [same EXCEPT !.err = data.err]
        ELSE IF key \in DOMAIN headers THEN [same EXCEPT !.err = "KeyError"]
        ELSE IF header.err # "" THEN [same EXCEPT !.err = header.err]
        ELSE IF engine # "open" THEN [same EXCEPT !.err = "ValueError"]
        ELSE [err |-> "",
              file |-> raw.file,
              headers |-> Put(headers, key, raw.location + header.off),
              pos |-> raw.pos]

\* what write(key, value) does with the cursor at p
WriteOutcomeFrom(p, key, value) ==
    WriteEncoded(p, key, to_bytes(value, TRUE, int_list_size))

\* what write(key, value) does from the cursor of the state
WriteOutcome(key, value) == WriteOutcomeFrom(pos, key, value)

\* write(key, value)
Write(key, value) ==
    LET out == WriteOutcome(key, value)
    IN  /\ engine \in {"open", "closed"}
        /\ Cardinality(DOMAIN headers) < MaxEntries
        /\ Len(out.file) <= MaxFileLen
        /\ Followed(out.file)
        /\ file' = out.file
        /\ headers' = out.headers
        /\ pos' = out.pos
        /\ result' = IF out.err = "" THEN Returned("write", NoneV)
                      ELSE Raised("write", out.err)
        /\ written' = IF out.err = "" THEN Put(written, key, value) ELSE written
        /\ UNCHANGED <<key_int_size, content_int_size, int_list_size, engine>>

\* read_len on a file object that still reads once it is closed
read_len_open(f, h, cis, eng, p, key) ==
    IF key \notin DOMAIN h THEN [err |-> "KeyError", len |-> 0, pos |-> p]
    ELSE LET length_bytes == ReadAt(f, h[key], cis)
         IN  [err |-> "", len |-> bytes_to_int(length_bytes),
              pos |-> h[key] + Len(length_bytes)]

\* read_len returning a null length for a missing key instead of raising
read_len_null(f, h, cis, eng, p, key) ==
    IF key \notin DOMAIN h THEN [err |-> "", len |-> 0, pos |-> p]
    ELSE IF eng # "open" THEN [err |-> "ValueError", len |-> 0, pos |-> p]
    ELSE LET length_bytes == ReadAt(f, h[key], cis)
         IN  [err |-> "", len |-> bytes_to_int(length_bytes),
              pos |-> h[key] + Len(length_bytes)]

\* read_len(key) on file f with index h and cursor p: the content length and
\* the cursor after the length field; a missing key raises KeyError, a closed
\* file ValueError
read_len(f, h, cis, eng, p, key) ==
    IF key \notin DOMAIN h THEN [err |-> "KeyError", len |-> 0, pos |-> p]
    ELSE IF eng # "open" THEN [err |-> "ValueError", len |-> 0, pos |-> p]
    ELSE LET location == seek(f, p, h[key], SEEK_SET)
             length_bytes == ReadAt(f, location, cis)
         IN  [err |-> "", len |-> bytes_to_int(length_bytes),
              pos |-> location + Len(length_bytes)]

\* what read(key) does on file f with index h: the value or the exception, and
\* the cursor
ReadOutcome(f, h, cis, ils, eng, p, key) ==
    LET length == read_len(f, h, cis, eng, p, key)
        content_bytes == ReadAt(f, length.pos, length.len)
        content == from_bytes(content_bytes, ils)
    IN  IF length.err # "" THEN [err |-> length.err, val |-> NoneV, pos |-> p]
        ELSE [err |-> content.err, val |-> content.v,
              pos |-> length.pos + Len(content_bytes)]

\* read(key)
Read(key) ==
    LET out == ReadOutcome(file, headers, content_int_size, int_list_size,
                           engine, pos, key)
    IN  /\ engine \in {"open", "closed"}
        /\ pos' = out.pos
        /\ result' = IF out.err = "" THEN Returned("read", out.val)
                      ELSE Raised("read", out.err)
        /\ UNCHANGED <<file, headers, key_int_size, content_int_size,
                       int_list_size, engine, written>>

\* the number of bytes one f.read of delete's loop asks for
ChunkSize == 1024

\* the chunk sizes delete's loop is run with: the program's, and sizes below,
\* at and above the lengths of the entries of the model's files
Chunks == {3, 8, ChunkSize}

\* the loop seeking back by entry_len only before it writes a chunk
RECURSIVE ShiftLoopShort(_, _, _, _)
ShiftLoopShort(f, p, entry_len, chunk) ==
    LET data == ReadAt(f, p, chunk)
        read_end == p + Len(data)
    IN  IF Len(data) = 0 THEN [err |-> "", file |-> f, pos |-> p]
        ELSE IF read_end - entry_len < 0
        THEN [err |-> "OSError", file |-> f, pos |-> read_end]
        ELSE ShiftLoopShort(WriteAt(f, read_end - entry_len, data), read_end,
                            entry_len, chunk)

\* delete's loop from cursor p: each chunk read is written entry_len bytes
\* earlier; a seek before offset 0 raises OSError
RECURSIVE ShiftLoop(_, _, _, _)
ShiftLoop(f, p, entry_len, chunk) ==
    LET data == ReadAt(f, p, chunk)
        read_end == p + Len(data)
        back_bytes == Len(data) + entry_len
    IN  IF Len(data) = 0 THEN [err |-> "", file |-> f, pos |-> p]
        ELSE IF read_end - back_bytes < 0
        THEN [err |-> "OSError", file |-> f, pos |-> read_end]
        ELSE ShiftLoop(WriteAt(f, read_end - back_bytes, data), read_end,
                       entry_len, chunk)

\* the reads and writes of delete's loop from cursor p, in order: each step is
\* the offset read from, the offset written to and the number of bytes
RECURSIVE ShiftTrace(_, _, _, _)
ShiftTrace(f, p, entry_len, chunk) ==
    LET data == ReadAt(f, p, chunk)
        read_end == p + Len(data)
        back_bytes == Len(data) + entry_len
    IN  IF Len(data) = 0 \/ read_end - back_bytes < 0 THEN << >>
        ELSE <<[from |-> p, to |-> read_end - back_bytes, n |-> Len(data)]>>
             \o ShiftTrace(WriteAt(f, read_end - back_bytes, data), read_end,
                           entry_len, chunk)

\* a delete that corrects no location
RebaseNone(h, entry_location, entry_len) == h

\* the correction applied to every entry, without the test of its location
RebaseAll(h, entry_location, entry_len) ==
    [k \in DOMAIN h |-> h[k] - entry_len]

\* the loop that corrects the locations of the entries left in the index
Rebase(h, entry_location, entry_len) ==
    [k \in DOMAIN h |->
        IF h[k] >= entry_location THEN h[k] - entry_len ELSE h[k]]

\* a truncation that keeps one byte too many
TruncatedSizeOffByOne(end, entry_len) == end - entry_len + 1

\* the size delete truncates the file to
TruncatedSize(end, entry_len) == end - entry_len

\* what delete(key) does with the cursor at p: the exception, the file, the
\* index and the cursor; the cursor stays at the old end of the file, truncate
\* does not move it
DeleteOutcomeFrom(p, key, chunk) ==
    LET content_len == read_len(file, headers, content_int_size, engine, p, key)
        entry_location == content_len.pos
        header_len == reconstruct_header_size(key, key_int_size, content_int_size)
        entry_len == header_len + content_len.len
        shifted == ShiftLoop(file, seek(file, entry_location, content_len.len, SEEK_CUR),
                             entry_len, chunk)
        end == seek(shifted.file, shifted.pos, 0, SEEK_END)
    IN  IF content_len.err # ""
        THEN [err |-> content_len.err, file |-> file, headers |-> headers,
              pos |-> p, moved |-> 0]
        ELSE IF shifted.err # ""
        THEN [err |-> shifted.err, file |-> shifted.file, headers |-> headers,
              pos |-> shifted.pos, moved |-> 0]
        ELSE IF TruncatedSize(end, entry_len) < 0
        THEN [err |-> "OSError", file |-> shifted.file, headers |-> headers,
              pos |-> end, moved |-> 0]
        ELSE [err |-> "",
              file |-> SubSeq(shifted.file, 1, TruncatedSize(end, entry_len)),
              headers |-> Rebase(Remove(headers, key), entry_location, entry_len),
              pos |-> end,
              moved |-> Max(0, Len(file) - (entry_location + content_len.len))]

\* what delete(key) does from the cursor of the state
DeleteOutcomeWith(key, chunk) == DeleteOutcomeFrom(pos, key, chunk)

DeleteOutcome(key) == DeleteOutcomeWith(key, ChunkSize)

\* delete(key) with a loop that reads chunk bytes at a time
DeleteWith(key, chunk) ==
    LET out == DeleteOutcomeWith(key, chunk)
    IN  /\ engine \in {"open", "closed"}
        /\ Followed(out.file)
        /\ file' = out.file
        /\ headers' = out.headers
        /\ pos' = out.pos
        /\ result' = IF out.err = ""
                      THEN [Returned("delete", NoneV) EXCEPT !.moved = out.moved]
                      ELSE Raised("delete", out.err)
        /\ written' = IF out.err = "" THEN Remove(written, key) ELSE written
        /\ UNCHANGED <<key_int_size, content_int_size, int_list_size, engine>>

\* delete(key)
Delete(key) == DeleteWith(key, ChunkSize)

\* close(): a closed file has no cursor any more (tell() raises), pos is 0 then
Close ==
    /\ engine \in {"open", "closed"}
    /\ engine' = "closed"
    /\ pos' = 0
    /\ result' = Returned("close", NoneV)
    /\ UNCHANGED <<file, headers, key_int_size, content_int_size, int_list_size,
                   written>>

\* what __init__ does on the existing file f: the widths of the Header Record
\* and the index of the scan, or the exception
OpenOutcome(f) ==
    LET info == get_info(f)
        scan == get_headers(f, info.kis, info.cis)
    IN  IF info.err # ""
        THEN [err |-> info.err, kis |-> 0, cis |-> 0, ils |-> 0,
              headers |-> EmptyMap, pos |-> 0]
        ELSE [err |-> scan.err, kis |-> info.kis, cis |-> info.cis, ils |-> info.ils,
              headers |-> IF scan.err = "" THEN scan.h ELSE EmptyMap,
              pos |-> scan.pos]

\* an open that adopts the widths the caller passes
OpenPassed(w) ==
    LET out == OpenOutcome(file)
        scan == get_headers(file, w[1], w[2])
    IN  /\ engine \in {"closed", "none"}
        /\ engine' = IF out.err = "" /\ scan.err = "" THEN "open" ELSE "none"
        /\ key_int_size' = w[1]
        /\ content_int_size' = w[2]
        /\ int_list_size' = w[3]
        /\ headers' = IF scan.err = "" THEN scan.h ELSE EmptyMap
        /\ pos' = scan.pos
        /\ result' = IF out.err = "" /\ scan.err = "" THEN Returned("open", NoneV)
                      ELSE Raised("open", "IndexingError")
        /\ UNCHANGED <<file, written>>

\* LazyDb(file, *w) after a close: the file exists, the widths w the caller
\* passes are not used
Open(w) ==
    LET out == OpenOutcome(file)
    IN  /\ engine \in {"closed", "none"}
        /\ engine' = IF out.err = "" THEN "open" ELSE "none"
        /\ key_int_size' = out.kis
        /\ content_int_size' = out.cis
        /\ int_list_size' = out.ils
        /\ headers' = out.headers
        /\ pos' = out.pos
        /\ result' = IF out.err = "" THEN Returned("open", NoneV)
                      ELSE Raised("open", out.err)
        /\ UNCHANGED <<file, written>>

\* the file loses its end once the engine is closed: what is left is the
\* Header Record and n bytes after it, the file a later __init__ opens; the
\* closed engine is not used again
Truncate(n) ==
    /\ engine = "closed"
    /\ result.op = "close"
    /\ LaidOut
    /\ Len(HeaderRecord) + n < Len(file)
    /\ file' = SubSeq(file, 1, Len(HeaderRecord) + n)
    /\ engine' = "none"
    /\ pos' = 0
    /\ result' = Returned("truncate", NoneV)
    /\ headers' = EmptyMap
    /\ UNCHANGED <<key_int_size, content_int_size, int_list_size, written>>

Next ==
    \/ \E key \in Keys, value \in Values : Write(key, value)
    \/ \E key \in Keys : Read(key)
    \/ \E key \in Keys : Delete(key)
    \/ Close
    \/ \E w \in Widths : Open(w)

Spec == Init /\ [][Next]_vars

\* one session on a freshly bootstrapped file: no reopen
NextSession ==
    \/ \E key \in Keys, value \in Values : Write(key, value)
    \/ \E key \in Keys : Read(key)
    \/ \E key \in Keys : Delete(key)
    \/ Close

SpecSession == Init /\ [][NextSession]_vars

\* one session in which delete's loop runs with every chunk size of Chunks
NextChunk ==
    \/ \E key \in Keys, value \in Values : Write(key, value)
    \/ \E key \in Keys : Read(key)
    \/ \E key \in Keys, chunk \in Chunks : DeleteWith(key, chunk)
    \/ Close

SpecChunk == Init /\ [][NextChunk]_vars

\* the keys and values of the sessions whose file is cut short
ListKeys == {KeyA, Key7}
ListValues == {ValX, ListV(<<1, 2>>)}

\* sessions of writes and reads with closes, cuts of the closed file and reopens
NextTruncated ==
    \/ \E key \in ListKeys, value \in ListValues : Write(key, value)
    \/ \E key \in ListKeys : Read(key)
    \/ Close
    \/ \E n \in 0..MaxFileLen : Truncate(n)
    \/ \E w \in Widths : Open(w)

SpecTruncated == Init /\ [][NextTruncated]_vars

\* the keys and values of the sessions whose calls are tried from every cursor
CursorKeys == {KeyA, Key7}
CursorValues == {ValX, ListV(<<1, 2>>), BytesEntry}

\* sessions of writes, reads and deletes with closes and reopens
NextCursor ==
    \/ \E key \in CursorKeys, value \in CursorValues : Write(key, value)
    \/ \E key \in CursorKeys : Read(key)
    \/ \E key \in CursorKeys : Delete(key)
    \/ Close
    \/ \E w \in Widths : Open(w)

SpecCursor == Init /\ [][NextCursor]_vars

TypeOK ==
    /\ engine \in {"open", "closed", "none"}
    /\ \A i \in 1..Len(file) : file[i] \in 0..255
    /\ pos >= 0

-----------------------------------------------------------------------------
(* Properties *)

\* the keys and values the store supports with the widths of the file
SupportedKey(k) ==
    \/ k.t = "str" /\ \A i \in 1..Len(k.b) : k.b[i] # 0
    \/ k.t = "int" /\ k.n >= 0 /\ k.n < Pow256(key_int_size)

SupportedValue(v) ==
    \/ v.t \in {"str", "bytes"} /\ Len(v.b) + 1 < Pow256(content_int_size)
    \/ v.t = "int" /\ v.n >= 0
    \/ v.t = "list" /\ \A i \in 1..Len(v.l) : v.l[i] >= 0 /\ v.l[i] < Pow256(int_list_size)
    \/ v.t = "dict"

\* the fewest bytes that hold n, at least one
MinWidth(n) == CHOOSE e \in 1..8 : n < Pow256(e) /\ (e = 1 \/ n >= Pow256(e - 1))

\* what read(k) returns or raises in the current state
ReadNow(k) ==
    LET o == ReadOutcome(file, headers, content_int_size, int_list_size, engine, pos, k)
    IN  [err |-> o.err, val |-> o.val]

\* what read(k) returns or raises in a session opened on the file f
ReadReopened(f, k) ==
    LET o == OpenOutcome(f)
        r == ReadOutcome(f, o.headers, o.cis, o.ils, "open", o.pos, k)
    IN  IF o.err # "" THEN [err |-> o.err, val |-> NoneV]
        ELSE [err |-> r.err, val |-> r.val]

Got(v) == [err |-> "", val |-> v]

\* C1: a write of a supported value under a supported key that is not in the
\* index succeeds and a read of the key returns the value, in the session and
\* after a reopen.
C1_RoundTrip ==
    [][ /\ \A k \in Keys, v \in Values :
             ( /\ engine = "open" /\ k \notin DOMAIN headers
               /\ SupportedKey(k) /\ SupportedValue(v)
               /\ Write(k, v) )
             => /\ result'.err = ""
                /\ ReadNow(k)' = Got(v)
                /\ ReadReopened(file', k) = Got(v)
      ]_vars

\* C2: whenever the engine is open, the index a reopen of the file would build
\* is the in-memory index: the same keys at the same offsets.
C2_IndexFidelity ==
    engine = "open" =>
        /\ OpenOutcome(file).err = ""
        /\ OpenOutcome(file).headers = headers

\* C3: after delete(k1) of a key that was written, a read of k1 raises KeyError
\* and a read of every other key that was written returns its value, in the
\* session and after a reopen.
C3_DeleteCorrectness ==
    [][ \A k1 \in Keys :
          ( /\ engine = "open" /\ k1 \in DOMAIN headers /\ k1 \in DOMAIN written
            /\ Delete(k1) )
          => /\ ReadNow(k1)'.err = "KeyError"
             /\ ReadReopened(file', k1).err = "KeyError"
             /\ \A k2 \in (DOMAIN written) \ {k1} :
                    /\ ReadNow(k2)' = Got(written[k2])
                    /\ ReadReopened(file', k2) = Got(written[k2])
      ]_vars

\* C4 as stated: a write under a key that is in the index raises the
\* duplicate-key error (KeyError) and leaves the file and the index as they were.
C4_Uniqueness ==
    [][ \A k \in Keys, v \in Values :
          (k \in DOMAIN headers /\ Write(k, v))
          => /\ result'.err = "KeyError"
             /\ file' = file
             /\ headers' = headers
      ]_vars

\* C4: a write under a key that is in the index always fails and leaves the
\* file and the index as they were; it raises the error of the value's encoding
\* when the value does not encode, and the duplicate-key error (KeyError)
\* otherwise.
C4_UniquenessEncodable ==
    [][ \A k \in Keys, v \in Values :
          (result'.op = "write" /\ k \in DOMAIN headers /\ Write(k, v))
          => /\ file' = file
             /\ headers' = headers
             /\ result'.err = IF to_bytes(v, TRUE, int_list_size).err # ""
                               THEN to_bytes(v, TRUE, int_list_size).err
                               ELSE "KeyError"
      ]_vars

\* a duplicate write was refused in an open session
C4_Witness ==
    /\ result.op = "write" /\ result.err = "KeyError"
    /\ engine = "open" /\ DOMAIN headers # {}

\* C5: delete(k) of a present key shrinks the file by the span of k's entry
\* (marker, key tag, key bytes, separator, content length field, content); the
\* bytes before the entry stay and the bytes after it move back by the span.
C5_CompactionSize ==
    [][ \A k \in Keys :
          ( /\ result'.op = "delete"
            /\ engine = "open" /\ k \in DOMAIN headers
            /\ EntryAt(file, headers, k, key_int_size, content_int_size)
            /\ Delete(k) )
          => LET start == EntryStart(headers, k, key_int_size)
                 end == EntryEnd(file, headers, k, content_int_size)
             IN  /\ end - start = 1 + Len(KeyBytes(k, key_int_size).b) + 1
                                     + content_int_size
                                     + bytes_to_int(ReadAt(file, headers[k], content_int_size))
                 /\ Len(file') = Len(file) - (end - start)
                 /\ SubSeq(file', 1, start) = SubSeq(file, 1, start)
                 /\ SubSeq(file', start + 1, Len(file'))
                        = SubSeq(file, end + 1, Len(file))
      ]_vars

\* a delete moved the bytes of a later entry back and one entry is left
C5_Witness ==
    /\ result.op = "delete" /\ result.err = "" /\ result.moved > 0
    /\ Cardinality(DOMAIN headers) = 1

\* C6: a write of an integer n >= 0 succeeds, its content is the integer tag
\* followed by the fewest little-endian bytes that hold n (at least one), and a
\* read returns n.
C6_IntegerEncoding ==
    [][ \A k \in Keys, v \in Values :
          ( /\ engine = "open" /\ k \notin DOMAIN headers /\ SupportedKey(k)
            /\ v.t = "int" /\ v.n >= 0
            /\ Write(k, v) )
          => /\ result'.err = ""
             /\ k \in DOMAIN headers'
             /\ SubSeq(file', headers'[k] + content_int_size + 1, Len(file'))
                    = <<2>> \o LittleEndian(v.n, MinWidth(v.n))
             /\ ReadNow(k)' = Got(v)
      ]_vars

\* C7: read(k) and delete(k) of a key that is not in the index raise KeyError
\* and leave the file and the index as they were.
C7_MissingKey ==
    [][ \A k \in Keys :
          ( /\ result'.op \in {"read", "delete"}
            /\ k \notin DOMAIN headers
            /\ (Read(k) \/ Delete(k)) )
          => /\ result'.err = "KeyError"
             /\ file' = file
             /\ headers' = headers
      ]_vars

\* a read of a missing key was refused after a delete emptied the index
C7_Witness ==
    /\ result.op = "read" /\ result.err = "KeyError"
    /\ engine = "open" /\ headers = EmptyMap /\ pos > Len(file)

\* write(k, v) fails in encoding: the value or the entry header does not encode
EncodingFails(k, v) ==
    LET data == to_bytes(v, TRUE, int_list_size)
    IN  \/ data.err # ""
        \/ gen_header(k, data.b, key_int_size, content_int_size).err # ""

\* C8: a write whose value, key or content length does not encode raises an
\* error and leaves the file and the index as they were: every step either
\* raises and keeps the file and the index, or is no write that fails in encoding.
C8_EncodingAtomic ==
    [][ \/ /\ result'.err # ""
           /\ file' = file
           /\ headers' = headers
        \/ \A k \in Keys, v \in Values :
              ~(result'.op = "write" /\ EncodingFails(k, v) /\ Write(k, v))
      ]_vars

\* a write that does not fit a width was refused on a file that holds an entry
C8_Witness ==
    /\ result.op = "write" /\ result.err = "OverflowError"
    /\ engine = "open" /\ DOMAIN headers # {}

\* C9: delete(k) of the only entry of the file leaves an empty index and a file
\* that is the Header Record alone, on which a reopen builds an empty index.
C9_DeleteOnlyEntry ==
    [][ \A k \in Keys :
          ( /\ result'.op = "delete"
            /\ engine = "open" /\ DOMAIN headers = {k} /\ LaidOut
            /\ Delete(k) )
          => /\ result'.err = ""
             /\ headers' = EmptyMap
             /\ file' = write_info(key_int_size, content_int_size, int_list_size)
             /\ OpenOutcome(file').err = ""
             /\ OpenOutcome(file').headers = EmptyMap
      ]_vars

\* the only entry was deleted
C9_Witness ==
    /\ result.op = "delete" /\ result.err = ""
    /\ headers = EmptyMap
    /\ file = write_info(key_int_size, content_int_size, int_list_size)

\* C10: in a session of writes and deletes on a fresh file, every offset of the
\* index is the offset of the content length field of an entry with that key,
\* and the file is the Header Record followed by exactly those entries, with no
\* gap, no overlap and no trailing bytes.
C10_Layout == LaidOut

\* a delete moved the entry of the key with a NUL back to the front
C10_Witness ==
    /\ result.op = "delete" /\ result.moved > 0
    /\ DOMAIN headers = {KeyNul}
    /\ headers[KeyNul] = Len(write_info(key_int_size, content_int_size, int_list_size))
                           + 1 + Len(KeyBytes(KeyNul, key_int_size).b) + 1

\* what read(k) returns or raises in the session once a write has left the
\* outcome out
ReadAfter(out, k) ==
    LET r == ReadOutcome(out.file, out.headers, content_int_size, int_list_size,
                         "open", out.pos, k)
    IN  [err |-> r.err, val |-> r.val]

\* C11: after delete(k) of a present key, write(k, v2) of a supported value
\* succeeds and read(k) returns v2, in the session and after a reopen, and
\* every other key still reads back the value it was written with.
C11_DeleteThenRewrite ==
    [][ \A k \in Keys, v2 \in Values :
          ( /\ result'.op = "delete" /\ result'.err = ""
            /\ engine = "open" /\ k \in DOMAIN headers /\ k \in DOMAIN written
            /\ SupportedKey(k) /\ SupportedValue(v2)
            /\ Delete(k) )
          => LET out == WriteOutcome(k, v2)'
             IN  /\ out.err = ""
                 /\ ReadAfter(out, k) = Got(v2)
                 /\ ReadReopened(out.file, k) = Got(v2)
                 /\ \A k3 \in (DOMAIN written) \ {k} :
                        /\ ReadAfter(out, k3) = Got(written[k3])
                        /\ ReadReopened(out.file, k3) = Got(written[k3])
      ]_vars

\* C12: no step changes the widths in use or the bytes of the Header Record,
\* which is the record of those widths; an open with any widths passed adopts
\* the widths of the file; a delete of a key the index does not locate at an
\* entry of the file, failing or not, leaves the Header Record bytes alone too.
C12_PersistedWidths ==
    [][ LET hdr == HeaderRecord
        IN  /\ <<key_int_size', content_int_size', int_list_size'>>
                 = <<key_int_size, content_int_size, int_list_size>>
            /\ SubSeq(file, 1, Len(hdr)) = hdr
            /\ SubSeq(file', 1, Len(hdr)) = hdr
            /\ \A w \in Widths :
                  (result'.op = "open" /\ Open(w))
                  => /\ result'.err = ""
                     /\ get_info(file).kis = key_int_size'
                     /\ get_info(file).cis = content_int_size'
                     /\ get_info(file).ils = int_list_size'
            /\ \A k \in DOMAIN headers :
                  \/ EntryAt(file, headers, k, key_int_size, content_int_size)
                  \/ SubSeq(DeleteOutcome(k).file, 1, Len(hdr)) = hdr
      ]_vars

\* a file bootstrapped with widths of 1 byte was reopened, with entries in it
C12_Witness ==
    /\ result.op = "open" /\ result.err = "" /\ engine = "open"
    /\ <<key_int_size, content_int_size, int_list_size>> = <<1, 1, 1>>
    /\ <<2, 2, 2>> \in Widths
    /\ DOMAIN headers # {}

\* C13: once the engine is closed, every read, write and delete raises and
\* leaves the file and the index as they were: every step either raises and
\* keeps the file and the index, or is no read, write or delete on a closed engine.
C13_CloseFinal ==
    [][ \/ /\ result'.err # ""
           /\ file' = file
           /\ headers' = headers
        \/ /\ \A k \in Keys :
                 ~(engine = "closed" /\ (Read(k) \/ Delete(k)))
           /\ \A k \in Keys, v \in Values :
                 ~(engine = "closed" /\ Write(k, v))
      ]_vars

\* a write of a new key was refused by a closed engine that holds an entry
C13_Witness ==
    /\ engine = "closed"
    /\ result.op = "write" /\ result.err = "ValueError"
    /\ DOMAIN headers # {}

\* step i of a trace reads no offset that an earlier step wrote: the bytes it
\* reads lie after or before the bytes of every earlier write
ReadsUnwritten(trace, i) ==
    \A j \in 1..(i - 1) :
        \/ trace[j].to + trace[j].n <= trace[i].from
        \/ trace[i].from + trace[i].n <= trace[j].to

\* C14: in every state of an open session, for every chunk size and every
\* entry of the file, the loop of delete run after that entry raises nothing and
\* ends with the cursor at the end of the file; every byte that was at an offset
\* p at or after the end of the entry is then at p - entry_len; no step of the
\* loop reads a byte that an earlier step had overwritten; and the loop takes
\* one step per chunk of the trailing region.
C14_ShiftUnderOverlap ==
    \A k \in DOMAIN headers, c \in Chunks :
        (engine = "open" /\ EntryAt(file, headers, k, key_int_size, content_int_size))
        => LET end == EntryEnd(file, headers, k, content_int_size)
               entry_len == reconstruct_header_size(k, key_int_size, content_int_size)
                              + bytes_to_int(ReadAt(file, headers[k], content_int_size))
               shifted == ShiftLoop(file, end, entry_len, c)
               trace == ShiftTrace(file, end, entry_len, c)
               trailing == Len(file) - end
           IN  /\ shifted.err = ""
               /\ shifted.pos = Len(file)
               /\ Len(shifted.file) = Len(file)
               /\ \A p \in end..(Len(file) - 1) :
                      shifted.file[p - entry_len + 1] = file[p + 1]
               /\ \A i \in 1..Len(trace) : ReadsUnwritten(trace, i)
               /\ Len(trace) = (trailing + c - 1) \div c

\* a delete moved an entry back that is longer than the smallest chunks and
\* shorter than the largest, under a key of the widest encoding
C14_Witness ==
    /\ result.op = "delete" /\ result.err = ""
    /\ result.moved > 8 /\ result.moved < ChunkSize
    /\ DOMAIN headers = {Key7} /\ key_int_size = 2

\* C15: delete(k) of a present key removes k from the index, subtracts the
\* span of k's entry from the offset of every key whose entry was after it,
\* and leaves the offset of every key whose entry was before it.
C15_Rebasing ==
    [][ \A k \in Keys :
          ( /\ result'.op = "delete"
            /\ engine = "open" /\ k \in DOMAIN headers
            /\ EntryAt(file, headers, k, key_int_size, content_int_size)
            /\ Delete(k) )
          => LET start == EntryStart(headers, k, key_int_size)
                 end == EntryEnd(file, headers, k, content_int_size)
             IN  /\ DOMAIN headers' = (DOMAIN headers) \ {k}
                 /\ \A k2 \in DOMAIN headers' :
                        IF EntryStart(headers, k2, key_int_size) >= end
                        THEN headers'[k2] = headers[k2] - (end - start)
                        ELSE /\ EntryEnd(file, headers, k2, content_int_size) <= start
                             /\ headers'[k2] = headers[k2]
      ]_vars

\* a delete moved the entry of the text key back to the front of the entries
C15_Witness ==
    /\ result.op = "delete" /\ result.err = "" /\ result.moved > 0
    /\ DOMAIN headers = {KeyA}
    /\ headers[KeyA] = Len(HeaderRecord) + 4

\* the entry of key k and value v: marker, key encoding, separator, content
\* length field, content
EntryBytes(k, v) ==
    LET content == to_bytes(v, TRUE, int_list_size).b
    IN  <<0>> \o KeyBytes(k, key_int_size).b \o <<0>>
        \o LittleEndian(Len(content), content_int_size) \o content

\* C16: a successful write(k, v) appends the entry of k and v at the old end of
\* the file and changes no byte before it, adds the key k to the index at the
\* offset of the content length field of the new entry, and changes no offset
\* of the index.
C16_AppendOnly ==
    [][ \A k \in Keys, v \in Values :
          (result'.op = "write" /\ result'.err = "" /\ Write(k, v))
          => /\ file' = file \o EntryBytes(k, v)
             /\ Len(file') = Len(file) + Len(EntryBytes(k, v))
             /\ SubSeq(file', 1, Len(file)) = file
             /\ k \notin DOMAIN headers
             /\ DOMAIN headers' = (DOMAIN headers) \cup {k}
             /\ headers'[k] = Len(file) + 1 + Len(KeyBytes(k, key_int_size).b) + 1
             /\ \A k2 \in DOMAIN headers : headers'[k2] = headers[k2]
      ]_vars

\* a second entry was appended after the entry of another key
C16_Witness ==
    /\ result.op = "write" /\ result.err = "" /\ engine = "open"
    /\ DOMAIN headers = {KeyA, Key7}
    /\ pos = Len(file)

\* C17: in every state of an open session, the key bytes of every string-key
\* entry of the file hold no NUL, and the scanner reads back each such entry
\* under the key it was written with, at the same offset.
C17_StringKeyFraming ==
    engine = "open" =>
        \A k \in DOMAIN headers :
            (k.t = "str" /\ EntryAt(file, headers, k, key_int_size, content_int_size))
            => /\ \A i \in 1..Len(k.b) : k.b[i] # 0
               /\ k \in DOMAIN OpenOutcome(file).headers
               /\ OpenOutcome(file).headers[k] = headers[k]

\* an entry that starts with a marker at the entry boundary p, or a later
\* entry, is cut short by the end of the file f: the key type byte, the end of
\* the key, the separator, a byte of the content length field or a byte of the
\* content is missing
RECURSIVE CutInEntry(_, _, _, _)
CutInEntry(f, p, kis, cis) ==
    IF p >= Len(f) \/ f[p + 1] # 0 THEN FALSE
    ELSE IF p + 1 >= Len(f) THEN TRUE
    ELSE LET t == f[p + 2]
             z == IndexOf(f, 0, p + 3)
             at == IF t = 1 THEN z ELSE p + 2 + kis + 1
         IN  IF t \notin {1, 2} THEN FALSE
             ELSE IF t = 1 /\ z = 0 THEN TRUE
             ELSE IF at + cis > Len(f) THEN TRUE
             ELSE IF at + cis + bytes_to_int(SubSeq(f, at + 1, at + cis)) > Len(f)
             THEN TRUE
             ELSE CutInEntry(f, at + cis + bytes_to_int(SubSeq(f, at + 1, at + cis)),
                             kis, cis)

\* C18: an open of a file in which the end of the file cuts an entry short
\* raises the corruption error (IndexingError) and returns no index.
C18_TruncatedOpen ==
    [][ \A w \in Widths :
          ( /\ result'.op = "open" /\ Open(w)
            /\ CutInEntry(file, read_to(file, 0, 0).pos,
                           get_info(file).kis, get_info(file).cis) )
          => /\ result'.err = "IndexingError"
             /\ engine' = "none"
      ]_vars

\* the content bytes read(k) hands to from_bytes
ContentRead(k) ==
    ReadAt(file, headers[k] + content_int_size,
           bytes_to_int(ReadAt(file, headers[k], content_int_size)))

\* C19: a read whose content is an integer list with a payload that is no
\* multiple of the element width raises an error and returns no list.
C19_RaggedList ==
    [][ \A k \in Keys :
          ( /\ result'.op = "read"
            /\ engine = "open" /\ k \in DOMAIN headers
            /\ Len(ContentRead(k)) >= 1
            /\ ContentRead(k)[1] = 4
            /\ (Len(ContentRead(k)) - 1) % int_list_size # 0
            /\ Read(k) )
          => result'.err # ""
      ]_vars

\* the offsets of the content bytes of the entries the index locates
ContentOffsets(f, h, cis) ==
    UNION { (h[k] + cis)..(EntryEnd(f, h, k, cis) - 1) : k \in DOMAIN h }

\* byte patterns to fill contents with: NUL bytes, 0xFF bytes, the start of a
\* string-key entry, the start of an integer-key entry
Fills == {<<0>>, <<255>>, <<0, 1, 97, 0>>, <<0, 2, 7, 0>>}

\* the file f with every content byte replaced by the pattern pat, repeated
Masked(f, h, cis, pat) ==
    [i \in 1..Len(f) |->
        IF (i - 1) \in ContentOffsets(f, h, cis)
        THEN pat[((i - 1) % Len(pat)) + 1] ELSE f[i]]

\* a file of the format: the index matches the file and no string key holds
\* a NUL
WellFormed ==
    /\ LaidOut
    /\ \A k \in DOMAIN headers : k.t = "str" => \A i \in 1..Len(k.b) : k.b[i] # 0

\* C20: on a file of the format, the index scan gives the same index whatever
\* bytes the contents hold, and it reads no content byte.
C20_PayloadIndependent ==
    (engine = "open" /\ WellFormed) =>
        /\ \A pat \in Fills :
               LET m == get_headers(Masked(file, headers, content_int_size, pat),
                                    key_int_size, content_int_size)
               IN  m.err = "" /\ m.h = headers
        /\ get_headers(file, key_int_size, content_int_size).h = headers
        /\ get_headers_reads(file, key_int_size, content_int_size)
             \cap ContentOffsets(file, headers, content_int_size) = {}

\* a reopened file of two entries, one of them with a content that looks like
\* the start of an entry
C20_Witness ==
    /\ engine = "open" /\ WellFormed
    /\ result.op = "open"
    /\ Cardinality(DOMAIN headers) = 2
    /\ \E k \in DOMAIN headers :
          ReadAt(file, headers[k] + content_int_size, 5) = <<5, 0, 1, 97, 0>>

\* how far past the end of the file a cursor is taken: a delete leaves the
\* cursor at the old end of the file, the length of the deleted entry past the
\* new end
CursorPast == 12

\* the cursor positions a preceding call can leave on file f
Cursors(f) == 0..(Len(f) + CursorPast)

\* C21: in every state of an open session, for every cursor position, a read,
\* a write and a delete give the result and leave the file and the index that
\* they give from the cursor the preceding call left.
C21_CursorIndependence ==
    engine = "open" =>
        /\ \A k \in Keys :
              LET b == ReadOutcome(file, headers, content_int_size, int_list_size,
                                   engine, pos, k)
              IN  \A c \in Cursors(file) :
                      LET a == ReadOutcome(file, headers, content_int_size,
                                           int_list_size, engine, c, k)
                      IN  a.err = b.err /\ a.val = b.val
        /\ \A k \in Keys :
              LET b == DeleteOutcomeFrom(pos, k, ChunkSize)
              IN  \A c \in Cursors(file) :
                      LET a == DeleteOutcomeFrom(c, k, ChunkSize)
                      IN  a.err = b.err /\ a.file = b.file /\ a.headers = b.headers
        /\ \A v \in Values :
              LET data == to_bytes(v, TRUE, int_list_size)
              IN  \A k \in Keys :
                      LET b == WriteEncoded(pos, k, data)
                      IN  \A c \in Cursors(file) :
                              LET a == WriteEncoded(c, k, data)
                              IN  /\ a.err = b.err
                                  /\ a.file = b.file
                                  /\ a.headers = b.headers

\* a delete moved bytes and left the cursor past the end of the file, with an
\* entry left to read or delete and room for a write
C21_Witness ==
    /\ engine = "open" /\ LaidOut
    /\ result.op = "delete" /\ result.err = "" /\ result.moved > 0
    /\ pos > Len(file)
    /\ pos \in Cursors(file)
    /\ Cardinality(DOMAIN headers) = 1

=============================================================================
